---- MODULE Spec2Model ----
(***************************************************************************)
(* A model of backend/main.py: the /predict handler of the YOLOv5 ONNX     *)
(* service, its letterbox pre-processing and its decode / rescale /        *)
(* per-class non-maximum-suppression post-processing.                      *)
(*                                                                         *)
(* Numbers.  The program computes in floating point; the model computes    *)
(* the same expressions exactly, over rationals held as integers:          *)
(*   - scores and thresholds are integers in units of 1/100;               *)
(*     objectness and class confidences are integers in units of 1/10, so  *)
(*     their product is in units of 1/100;                                 *)
(*   - a coordinate is an integer numerator over a denominator `den` that  *)
(*     the geometry operators take as a parameter (den = 2 * IMG_SIZE for  *)
(*     boxes that went through xywh2xyxy and the division by the gain).    *)
(***************************************************************************)
EXTENDS Integers, Sequences, FiniteSets, TLC

VARIABLES
    \* the service
    CONF_THRES,  \* the module-level confidence threshold, in 1/100
    IOU_THRES,   \* the module-level IoU threshold, in 1/100
    pc,          \* per request: "idle", "reading" (at await file.read()), "done"
    req,         \* per request: the query parameters the handler was called with
    inp,         \* per request: what the upload and the engine turned out to be
    resp,        \* per request: the response
    used,        \* per request: the thresholds run_onnx read (history)
    writer,      \* the request that last assigned the thresholds (history)
    \* the suppressor on its own
    cands,       \* the candidates after thresholding and rescaling
    iouT,        \* the IoU threshold, in 1/100
    kept,        \* the indices into cands the per-class loop kept
    det,         \* the rows stacked from them
    det2,        \* the rows of a second pass over det
    stage,       \* "input", "once", "twice"
    \* letterbox on its own
    lbIn,        \* <<w0, h0>>
    lbOut        \* <<>>, then <<the result>>

svcVars == <<CONF_THRES, IOU_THRES, pc, req, inp, resp, used, writer>>
nmsVars == <<cands, iouT, kept, det, det2, stage>>
lbVars  == <<lbIn, lbOut>>
vars    == <<svcVars, nmsVars, lbVars>>

\* a mutant of DefaultConf: the default read from the module-level
\* threshold when the request arrives
DefaultConfLate == CONF_THRES

\* ------------------------------------------------------------------ bounds
MaxDim      == 3    \* images of 1..MaxDim pixels a side reach the pipeline
MaxRows     == 2    \* rows of a raw prediction
MaxCands    == 2    \* candidates handed to the suppressor on its own
NumClasses  == 2    \* class columns of the loaded model's output
NumRequests == 2    \* requests in flight at once

\* ------------------------------------------------------ program constants
IMG_SIZE == 640
\* 1e-6, the term added to the IoU denominator, as 1 / EPS_INV
EPS_INV  == 1000000
\* the module-level thresholds as the module sets them (units of 1/100)
CONF_THRES_0 == 25
IOU_THRES_0  == 45
NAMES == <<"person", "bicycle", "car", "motorbike">>

\* Query(CONF_THRES, ...) and Query(IOU_THRES, ...): the defaults of the conf
\* and iou parameters are evaluated once, when the handler is defined
DefaultConf == CONF_THRES_0
DefaultIou  == IOU_THRES_0

Max2(a, b) == IF a >= b THEN a ELSE b
Min2(a, b) == IF a <= b THEN a ELSE b

\* Python's round(n / d) for d > 0: to the nearest integer, a tie to the
\* even one.  \div floors and % is non-negative, for negative n too.
Round(n, d) ==
    LET q == n \div d
        r == n % d
    IN  IF 2 * r < d THEN q
        ELSE IF 2 * r > d THEN q + 1
        ELSE IF q % 2 = 0 THEN q ELSE q + 1

\* np.clip(x, lo, hi)
Clip(x, lo, hi) == Max2(lo, Min2(x, hi))

\* --------------------------------------------------------------- letterbox
\* letterbox(im, IMG_SIZE) for an image of w0 x h0 pixels.  The gain
\* r = min(S / w0, S / h0) is the rational S / rden.  ok is FALSE when
\* cv2.resize is handed an empty target size and raises.
letterbox(w0, h0) ==
    LET S     == IMG_SIZE
        rden  == IF S * h0 <= S * w0 THEN w0 ELSE h0
        w1    == Round(w0 * S, rden)
        h1    == Round(h0 * S, rden)
        dw    == S - w1
        dh    == S - h1
        \* round(dw / 2 - 0.1) = round((5 * dw - 1) / 10)
        top    == Round(5 * dh - 1, 10)
        bottom == Round(5 * dh + 1, 10)
        left   == Round(5 * dw - 1, 10)
        right  == Round(5 * dw + 1, 10)
    IN  [ok     |-> (<<w0, h0>> = <<w1, h1>>) \/ (w1 >= 1 /\ h1 >= 1),
         w1     |-> w1,
         h1     |-> h1,
         rnum   |-> S,
         rden   |-> rden,
         left   |-> left,
         right  |-> right,
         top    |-> top,
         bottom |-> bottom,
         outW   |-> w1 + left + right,
         outH   |-> h1 + top + bottom]

\* ---------------------------------------------------------------- geometry
\* A box is <<x1, y1, x2, y2>>.
\* xywh2xyxy on a row <<cx, cy, w, h>> of integers: the corners, in halves.
xywh2xyxy(x) ==
    <<2 * x[1] - x[3], 2 * x[2] - x[4], 2 * x[1] + x[3], 2 * x[2] + x[4]>>

\* ovr <= iou_thres, for ovr = inter / (union + 1e-6): inter and union are
\* areas in units of 1 / den^2, iou_thres is t / 100.  With e = den^2 / EPS_INV
\* the quotient is inter / (union + e) in those units.
\* inter is never negative (line 94-96).
\*   inter = 0: ovr is a zero of either sign, and t >= 0 (the denominator
\*   is not zero: no area of the model's grids is -1e-6).
\*   union + e < 0: ovr is negative.
\*   otherwise ovr <= t / 100  <=>  100 * inter / t - union <= e, decided on
\*   the integer part k and the remainder r of 100 * inter / t.
OvrLeq(inter, union, t, den) ==
    LET d2 == den * den
        e  == d2 \div EPS_INV
    IN  IF inter = 0 THEN TRUE
        ELSE IF union < 0 /\ (-union > e \/ (-union) * EPS_INV > d2) THEN TRUE
        ELSE IF t = 0 THEN FALSE
        ELSE LET q == (100 * inter) \div t
                 r == (100 * inter) % t
                 k == q - union
             IN  IF k < 0 THEN TRUE
                 ELSE IF k > e THEN FALSE
                 ELSE (k * t + r) * EPS_INV <= d2 * t

Area(b) == (b[3] - b[1]) * (b[4] - b[2])

Inter(a, b) ==
    LET w == Max2(0, Min2(a[3], b[3]) - Max2(a[1], b[1]))
        h == Max2(0, Min2(a[4], b[4]) - Max2(a[2], b[2]))
    IN  w * h

\* mutants of Survives: ovr < iou_thres, and an overlap measured against the
\* remaining box alone
SurvivesStrict(a, b, t, den) ==
    LET inter == Inter(a, b)
    IN  IF inter = 0 THEN 0 < t
        ELSE OvrLeq(inter, Area(a) + Area(b) - inter, t, den)
SurvivesOverOther(a, b, t, den) == OvrLeq(Inter(a, b), Area(b), t, den)

\* the test of lines 90-98 for the selected box a and a remaining box b
Survives(a, b, t, den) ==
    LET inter == Inter(a, b)
    IN  OvrLeq(inter, Area(a) + Area(b) - inter, t, den)

\* ------------------------------------------------------------- nms_boxes
RECURSIVE SortAsc(_, _, _)
\* the indices in S by ascending score; equal scores in the order tb ranks
\* them (argsort's default kind is not a stable sort: tb is any ranking)
SortAsc(S, scores, tb) ==
    IF S = {} THEN <<>>
    ELSE LET i == CHOOSE i \in S : \A j \in S \ {i} :
                      \/ scores[i] < scores[j]
                      \/ scores[i] = scores[j] /\ tb[i] < tb[j]
         IN  <<i>> \o SortAsc(S \ {i}, scores, tb)

Reverse(s) == [k \in 1..Len(s) |-> s[Len(s) + 1 - k]]

\* scores.argsort()
argsort(scores, tb) == SortAsc(1..Len(scores), scores, tb)

\* a mutant of Order: the reversal left out
OrderAscending(scores, tb) == argsort(scores, tb)
\* order = scores.argsort()[::-1]
Order(scores, tb) == Reverse(argsort(scores, tb))

RECURSIVE NmsLoop(_, _, _, _, _)
\* the while loop of nms_boxes: select order[0], keep of order[1:] the
\* boxes whose overlap with it is <= iou_thres
NmsLoop(order, keep, boxes, iou_thres, den) ==
    IF order = <<>> THEN keep
    ELSE LET i == Head(order)
             Stays(j) == Survives(boxes[i], boxes[j], iou_thres, den)
         IN  NmsLoop(SelectSeq(Tail(order), Stays), Append(keep, i),
                     boxes, iou_thres, den)

\* nms_boxes(boxes, scores, iou_thres): the kept indices, in selection order
nms_boxes(boxes, scores, iou_thres, den, tb) ==
    NmsLoop(Order(scores, tb), <<>>, boxes, iou_thres, den)

\* ------------------------------------------------- run_onnx, NMS per class
RECURSIVE SetToSortedSeq(_)
\* np.unique: the distinct values, ascending
SetToSortedSeq(S) ==
    IF S = {} THEN <<>>
    ELSE LET m == CHOOSE m \in S : \A x \in S : m <= x
         IN  <<m>> \o SetToSortedSeq(S \ {m})

Range(s) == {s[k] : k \in 1..Len(s)}

\* np.where(class_ids == c)[0]
IdxsOf(class_ids, c) ==
    LET IsC(i) == class_ids[i] = c
    IN  SelectSeq([k \in 1..Len(class_ids) |-> k], IsC)

RECURSIVE ConcatAll(_)
ConcatAll(ss) == IF ss = <<>> THEN <<>> ELSE Head(ss) \o ConcatAll(Tail(ss))

\* a mutant of PerClassKeep: one suppression over all candidates at once
AgnosticKeep(box, class_ids, class_scores, iou_thres, den, tb) ==
    nms_boxes(box, class_scores, iou_thres, den, tb)

\* the loop of lines 148-153: for each class, ascending, the candidates
\* nms_boxes keeps of that class, as indices into box
PerClassKeep(box, class_ids, class_scores, iou_thres, den, tb) ==
    LET classes == SetToSortedSeq(Range(class_ids))
        KeepOf(c) ==
            LET idxs == IdxsOf(class_ids, c)
                keep == nms_boxes([k \in 1..Len(idxs) |-> box[idxs[k]]],
                                  [k \in 1..Len(idxs) |-> class_scores[idxs[k]]],
                                  iou_thres, den, tb)
            IN  [k \in 1..Len(keep) |-> idxs[keep[k]]]
    IN  ConcatAll([n \in 1..Len(classes) |-> KeepOf(classes[n])])

\* lines 155-175: the rows x1, y1, x2, y2, score, cls of the kept candidates
Stack(box, class_ids, class_scores, keep) ==
    [k \in 1..Len(keep) |->
        [box |-> box[keep[k]], score |-> class_scores[keep[k]],
         cls |-> class_ids[keep[k]]]]

\* ------------------------------------------------------ run_onnx, decode
\* A raw prediction row is [xywh |-> <<cx, cy, w, h>>, obj |-> o, cls |-> v]:
\* canvas pixels, and confidences in 1/10.
\* scores = conf * cls (line 118), in 1/100
RowScores(row) == [c \in 1..Len(row.cls) |-> row.obj * row.cls[c]]

\* scores.max(axis=1)
ClassScore(row) ==
    LET sc == RowScores(row)
    IN  CHOOSE m \in Range(sc) : \A x \in Range(sc) : x <= m

\* scores.argmax(axis=1): the first index of the maximum, from 0
ClassId(row) ==
    LET sc == RowScores(row)
    IN  (CHOOSE c \in 1..Len(sc) :
            /\ sc[c] = ClassScore(row)
            /\ \A d \in 1..(c - 1) : sc[d] # sc[c]) - 1

\* a mutant of Mask: the objectness alone against the threshold
MaskObjectness(row, conf_thres) == 10 * row.obj >= conf_thres

\* mask = class_scores >= CONF_THRES (line 125)
Mask(row, conf_thres) == ClassScore(row) >= conf_thres

\* a mutant of ClipBox: the bounds w and h in place of w - 1 and h - 1
ClipBoxToSize(b, w, h, den) ==
    <<Clip(b[1], 0, w * den), Clip(b[2], 0, h * den),
      Clip(b[3], 0, w * den), Clip(b[4], 0, h * den)>>

\* lines 139-142
ClipBox(b, w, h, den) ==
    <<Clip(b[1], 0, (w - 1) * den), Clip(b[2], 0, (h - 1) * den),
      Clip(b[3], 0, (w - 1) * den), Clip(b[4], 0, (h - 1) * den)>>

\* lines 133-142 on one box b in half pixels of the canvas: less the
\* padding, over the gain rnum / rden, clipped; the result over
\* den = 2 * rnum
Rescale(b, lb, w, h) ==
    ClipBox(<<(b[1] - 2 * lb.left) * lb.rden, (b[2] - 2 * lb.top) * lb.rden,
              (b[3] - 2 * lb.left) * lb.rden, (b[4] - 2 * lb.top) * lb.rden>>,
            w, h, 2 * lb.rnum)

\* run_onnx(img_bgr) past the engine: pred is the raw prediction of the
\* w x h image, conf_thres and iou_thres are the module-level thresholds as
\* read at lines 125 and 150.  The rows x1, y1, x2, y2 (over 2 * IMG_SIZE),
\* score, cls.
run_onnx(w, h, pred, conf_thres, iou_thres, tb) ==
    LET lb   == letterbox(w, h)
        den  == 2 * lb.rnum
        Pass(row) == Mask(row, conf_thres)
        rows == SelectSeq(pred, Pass)
        box  == [k \in 1..Len(rows) |-> Rescale(xywh2xyxy(rows[k].xywh), lb, w, h)]
        class_ids    == [k \in 1..Len(rows) |-> ClassId(rows[k])]
        class_scores == [k \in 1..Len(rows) |-> ClassScore(rows[k])]
    IN  [den |-> den,
         arr |-> Stack(box, class_ids, class_scores,
                       PerClassKeep(box, class_ids, class_scores,
                                    iou_thres, den, tb))]

\* ----------------------------------------------------------------- predict
\* NAMES[cls] if 0 <= cls < len(NAMES) else str(cls)
Label(cls) == IF 0 <= cls /\ cls < Len(NAMES) THEN NAMES[cls + 1] ELSE ToString(cls)

\* lines 243-254: the JSON body for the rows dets of a w x h image.  A score
\* in 1/100 is its own rounding to 6 places.
JsonBoxes(dets, den, w, h) ==
    [k \in 1..Len(dets) |->
        [x1 |-> Max2(0, Round(dets[k].box[1], den)),
         y1 |-> Max2(0, Round(dets[k].box[2], den)),
         x2 |-> Min2(w, Round(dets[k].box[3], den)),
         y2 |-> Min2(h, Round(dets[k].box[4], den)),
         label |-> Label(dets[k].cls),
         score |-> dets[k].score]]

JsonResponse(dets, den, w, h) ==
    [status |-> 200, kind |-> "json", boxes |-> JsonBoxes(dets, den, w, h),
     width |-> w, height |-> h]

\* an exception nothing in predict catches: the framework answers 500
Unhandled ==
    [status |-> 500, kind |-> "unhandled_exception", boxes |-> <<>>,
     width |-> 0, height |-> 0]
\* line 239
RenderFailed ==
    [status |-> 500, kind |-> "render_failed", boxes |-> <<>>,
     width |-> 0, height |-> 0]
\* line 240
Png(w, h) ==
    [status |-> 200, kind |-> "png", boxes |-> <<>>, width |-> w, height |-> h]

NoResp == [status |-> 0, kind |-> "none", boxes |-> <<>>, width |-> 0, height |-> 0]
NoReq  == [conf |-> 0, iou |-> 0, render |-> FALSE, omitted |-> FALSE,
           overrode |-> FALSE]
NoInp  == [valid |-> FALSE, w |-> 0, h |-> 0, engineOk |-> FALSE, pred |-> <<>>,
           encodeOk |-> FALSE, clean |-> FALSE]

\* The handler up to `await file.read()` (lines 221-226).  qc and qi are the
\* conf and iou of the query: <<>> when left out, <<v>> when given.
Receive(r, qc, qi, render) ==
    /\ pc[r] = "idle"
    /\ LET conf == IF qc = <<>> THEN DefaultConf ELSE qc[1]
           iou  == IF qi = <<>> THEN DefaultIou ELSE qi[1]
       IN  /\ CONF_THRES' = conf
           /\ IOU_THRES' = iou
           /\ req' = [req EXCEPT ![r] =
                        [conf |-> conf, iou |-> iou, render |-> render,
                         omitted |-> (qc = <<>> /\ qi = <<>>),
                         overrode |-> <<CONF_THRES, IOU_THRES>>
                                        # <<CONF_THRES_0, IOU_THRES_0>>]]
    /\ writer' = r
    /\ pc' = [pc EXCEPT ![r] = "reading"]
    /\ UNCHANGED <<inp, resp, used, nmsVars, lbVars>>

\* The handler from the return of file.read() to its end (lines 227-254).
\* img is what the upload decodes to (valid FALSE: Image.open raises),
\* engineOk whether ort_session.run returns, pred what it returns, encodeOk
\* what cv2.imencode answers, tb how argsort ranks equal scores.
Resume(r, img, engineOk, pred, encodeOk, tb) ==
    /\ pc[r] = "reading"
    /\ LET ran == img.valid /\ letterbox(img.w, img.h).ok /\ engineOk
           out == run_onnx(img.w, img.h, pred, CONF_THRES, IOU_THRES, tb)
       IN  /\ used' = [used EXCEPT ![r] =
                         IF ran THEN <<CONF_THRES, IOU_THRES>> ELSE <<>>]
           /\ resp' = [resp EXCEPT ![r] =
                         IF ~ran THEN Unhandled
                         ELSE IF req[r].render
                              THEN IF encodeOk THEN Png(img.w, img.h)
                                   ELSE RenderFailed
                              ELSE JsonResponse(out.arr, out.den, img.w, img.h)]
    /\ inp' = [inp EXCEPT ![r] =
                 [valid |-> img.valid, w |-> img.w, h |-> img.h,
                  engineOk |-> engineOk, pred |-> pred, encodeOk |-> encodeOk,
                  clean |-> (writer = r)]]
    /\ pc' = [pc EXCEPT ![r] = "done"]
    /\ UNCHANGED <<CONF_THRES, IOU_THRES, req, writer, nmsVars, lbVars>>

\* the response is sent; the next request
Recycle(r) ==
    /\ pc[r] = "done"
    /\ pc' = [pc EXCEPT ![r] = "idle"]
    /\ req' = [req EXCEPT ![r] = NoReq]
    /\ inp' = [inp EXCEPT ![r] = NoInp]
    /\ resp' = [resp EXCEPT ![r] = NoResp]
    /\ used' = [used EXCEPT ![r] = <<>>]
    /\ UNCHANGED <<CONF_THRES, IOU_THRES, writer, nmsVars, lbVars>>

\* ======================================================= the suppressor
\* The candidates handed to the per-class loop, with integer corners
\* (den = 1): a box, its left half (IoU 1/2 with it), a box over its right
\* half and below (IoU 1/3 with it, 0 with the left half), and a box whose
\* x2 < x1 (a negative raw width) and a point (area 0).  A list may hold a
\* box more than once.
CandBoxes   ==
    {<<0, 0, 2, 1>>, <<0, 0, 1, 1>>, <<1, 0, 2, 2>>, <<2, 0, 1, 1>>, <<0, 0, 0, 0>>}
CandScores  == {50, 80}
CandClasses == {0, 1}
IouValues   == {0, 45, 50, 100}
Candidate   == [box : CandBoxes, score : CandScores, cls : CandClasses]
CandLists   == UNION {[1..n -> Candidate] : n \in 1..MaxCands}

\* the rankings argsort may give equal scores: the orders of 1..n
Rankings(n) == {f \in [1..n -> 1..n] : \A a, b \in 1..n : a # b => f[a] # f[b]}

Boxes(cs)  == [k \in 1..Len(cs) |-> cs[k].box]
Scores(cs) == [k \in 1..Len(cs) |-> cs[k].score]
Classes(cs) == [k \in 1..Len(cs) |-> cs[k].cls]

NoneServer ==
    /\ CONF_THRES = CONF_THRES_0
    /\ IOU_THRES = IOU_THRES_0
    /\ pc = <<>> /\ req = <<>> /\ inp = <<>> /\ resp = <<>> /\ used = <<>>
    /\ writer = 0
NoneNms ==
    /\ cands = <<>> /\ iouT = 0 /\ kept = <<>> /\ det = <<>> /\ det2 = <<>>
    /\ stage = "off"
NoneLb == lbIn = <<0, 0>> /\ lbOut = <<>>

InitNms ==
    /\ cands \in CandLists
    /\ iouT \in IouValues
    /\ kept = <<>> /\ det = <<>> /\ det2 = <<>>
    /\ stage = "input"
    /\ NoneServer /\ NoneLb

\* lines 144-175 of run_onnx on cands
Suppress ==
    /\ stage = "input"
    /\ \E tb \in Rankings(MaxCands) :
         /\ kept' = PerClassKeep(Boxes(cands), Classes(cands), Scores(cands),
                                 iouT, 1, tb)
         /\ det' = Stack(Boxes(cands), Classes(cands), Scores(cands), kept')
    /\ stage' = "once"
    /\ UNCHANGED <<cands, iouT, det2, svcVars, lbVars>>

\* the same loop over its own output
SuppressAgain ==
    /\ stage = "once"
    /\ \E tb \in Rankings(MaxCands) :
         det2' = Stack(Boxes(det), Classes(det), Scores(det),
                       PerClassKeep(Boxes(det), Classes(det), Scores(det),
                                    iouT, 1, tb))
    /\ stage' = "twice"
    /\ UNCHANGED <<cands, iouT, kept, det, svcVars, lbVars>>

NextNms == Suppress \/ SuppressAgain
SpecNms == InitNms /\ [][NextNms]_vars

\* ------------------------------------------------------------------ C2
\* a class partition of two candidates, A first (index 1) and B second, with
\* score(A) > score(B)
PairOf(cs) ==
    /\ Len(cs) = 2
    /\ cs[1].cls = cs[2].cls
    /\ cs[1].score > cs[2].score
\* IoU(a, b) > t / 100, from the definition: inter / (union + 1e-6)
IoUExceeds(a, b, t) ==
    LET i  == Inter(a, b)
        dn == (Area(a) + Area(b) - i) * EPS_INV + 1
    IN  IF dn > 0 THEN 100 * i * EPS_INV > t * dn
        ELSE 100 * i * EPS_INV < t * dn
\* C2: for a class partition of two candidates A and B with
\* score(A) > score(B), nms_boxes keeps exactly A when IoU(A, B) > iou_thres
\* and keeps A and B when IoU(A, B) <= iou_thres (IoU being the quotient with
\* the 1e-6 in its denominator).
C2_PairKept ==
    (stage = "once" /\ PairOf(cands)) =>
        IF IoUExceeds(cands[1].box, cands[2].box, iouT)
        THEN kept = <<1>>
        ELSE Range(kept) = {1, 2} /\ Len(kept) = 2
\* C2, its case: two distinct boxes of IoU 1/2 under the threshold 0.45, the
\* higher-scoring one alone kept
C2_Witness ==
    /\ stage = "once" /\ PairOf(cands)
    /\ IoUExceeds(cands[1].box, cands[2].box, iouT)
    /\ cands[1].box # cands[2].box
    /\ iouT = 45
    /\ kept = <<1>>

\* ------------------------------------------------------------------ C3
\* C3: a candidate is missing from the output only when a kept candidate of
\* its own class overlaps it by more than the threshold, and a candidate that
\* is alone in its class is always kept, whatever the threshold (0 included).
C3_NoCrossClass ==
    stage = "once" =>
        \A i \in 1..Len(cands) :
            /\ i \notin Range(kept) =>
                 \E j \in Range(kept) :
                    /\ cands[j].cls = cands[i].cls
                    /\ IoUExceeds(cands[j].box, cands[i].box, iouT)
            /\ (\A j \in 1..Len(cands) : j # i => cands[j].cls # cands[i].cls)
                 => i \in Range(kept)
\* C3, its case: the same box (of positive area) twice, in two classes,
\* under the threshold 0: both in the output
C3_Witness ==
    /\ stage = "once" /\ iouT = 0 /\ Len(cands) = 2
    /\ cands[1].box = cands[2].box /\ Area(cands[1].box) > 0
    /\ cands[1].cls # cands[2].cls
    /\ Len(det) = 2

\* ------------------------------------------------------------------ C5
\* C5: the per-class loop applied to its own output, with the same
\* threshold, returns the same rows: none removed, none added.
C5_Idempotent ==
    stage = "twice" => (Range(det2) = Range(det) /\ Len(det2) = Len(det))
\* C5, its case: two overlapping rows of one class and one score survive the
\* first pass, and the second pass returns them in the other order
C5_Witness ==
    /\ stage = "twice" /\ Len(cands) = 2 /\ Len(det) = 2
    /\ det[1].cls = det[2].cls /\ det[1].score = det[2].score
    /\ Inter(det[1].box, det[2].box) > 0
    /\ det2 # det

LbDims ==
    (1..MaxDim) \cup {IMG_SIZE - 1, IMG_SIZE, IMG_SIZE + 1,
                      2 * IMG_SIZE - 1, 2 * IMG_SIZE, 2 * IMG_SIZE + 1}

InitLb ==
    /\ lbIn \in LbDims \X LbDims
    /\ lbOut = <<>>
    /\ NoneServer /\ NoneNms

Letterbox ==
    /\ lbOut = <<>>
    /\ lbOut' = <<letterbox(lbIn[1], lbIn[2])>>
    /\ UNCHANGED <<lbIn, svcVars, nmsVars>>

NextLb == Letterbox
SpecLb == InitLb /\ [][NextLb]_vars

\* ------------------------------------------------------------------ C7
\* C7: for every image of W0 >= 1 by H0 >= 1 pixels letterbox completes
\* without error, its resized dimensions lie in 1..S and the padded image is
\* exactly S x S.
C7_LetterboxTotal ==
    lbOut # <<>> =>
        /\ lbOut[1].ok
        /\ lbOut[1].w1 \in 1..IMG_SIZE /\ lbOut[1].h1 \in 1..IMG_SIZE
        /\ lbOut[1].outW = IMG_SIZE /\ lbOut[1].outH = IMG_SIZE

\* (not a claim) the padding completes the resized dimensions to S x S,
\* and they never exceed S
LbPadsToCanvas ==
    lbOut # <<>> =>
        /\ lbOut[1].w1 \in 0..IMG_SIZE /\ lbOut[1].h1 \in 0..IMG_SIZE
        /\ lbOut[1].outW = IMG_SIZE /\ lbOut[1].outH = IMG_SIZE
        /\ lbOut[1].left >= 0 /\ lbOut[1].top >= 0

\* ============================================================ inputs
\* the class confidences of a row: a for class 0, b for class 1, 0 beyond
ClsVec(a, b) == [c \in 1..NumClasses |-> IF c = 1 THEN a ELSE IF c = 2 THEN b ELSE 0]

\* Raw prediction rows: a box beyond the canvas on every side (score 0.90,
\* class 0), the left half of the canvas (0.81, class 0), the whole canvas
\* (0.90, class 1), and a row of negative width whose class confidences tie
\* (0.30, class 0).
RowBeyond == [xywh |-> <<320, 320, 800, 800>>, obj |-> 10, cls |-> ClsVec(9, 1)]
RowLeft   == [xywh |-> <<160, 320, 320, 640>>, obj |-> 9, cls |-> ClsVec(9, 0)]
RowOther  == [xywh |-> <<320, 320, 640, 640>>, obj |-> 10, cls |-> ClsVec(5, 9)]
RowNeg    == [xywh |-> <<320, 320, -320, 640>>, obj |-> 10, cls |-> ClsVec(3, 3)]
Rows      == {RowBeyond, RowLeft, RowOther, RowNeg}
Preds     == UNION {[1..n -> Rows] : n \in 0..MaxRows}

\* uploads: one that does not decode, the images of 1..MaxDim pixels a side,
\* and one of 1 x 2 * IMG_SIZE pixels
BadUpload == [valid |-> FALSE, w |-> 0, h |-> 0]
Images ==
    {[valid |-> TRUE, w |-> p[1], h |-> p[2]] : p \in (1..MaxDim) \X (1..MaxDim)}
    \cup {[valid |-> TRUE, w |-> 1, h |-> 2 * IMG_SIZE]}
Identity == [k \in 1..MaxRows |-> k]

InitSvc(R) ==
    /\ CONF_THRES = CONF_THRES_0
    /\ IOU_THRES = IOU_THRES_0
    /\ pc = [r \in R |-> "idle"]
    /\ req = [r \in R |-> NoReq]
    /\ inp = [r \in R |-> NoInp]
    /\ resp = [r \in R |-> NoResp]
    /\ used = [r \in R |-> <<>>]
    /\ writer = 0
    /\ NoneNms /\ NoneLb

\* ====================================== the service, requests interleaved
Requests == 1..NumRequests

SvcReceive(r) ==
    \E qc \in {<<>>, <<50>>} : \E qi \in {<<>>, <<0>>} :
        Receive(r, qc, qi, FALSE)

SvcResume(r) ==
    /\ pc[r] = "reading"
    /\ \/ Resume(r, BadUpload, FALSE, <<>>, FALSE, Identity)
       \/ Resume(r, [valid |-> TRUE, w |-> 2, h |-> 2], TRUE,
                 <<RowBeyond, RowLeft>>, FALSE, Identity)

Init == InitSvc(Requests)
Next == \E r \in Requests : SvcReceive(r) \/ SvcResume(r) \/ Recycle(r)
Spec == Init /\ [][Next]_vars

\* ------------------------------------------------------------------ C1
\* C1: under any interleaving of /predict requests, the thresholds run_onnx
\* reads for a request are the conf and iou that request supplied.
C1_OwnThresholds ==
    \A r \in DOMAIN pc :
        (pc[r] = "done" /\ used[r] # <<>>) =>
            used[r] = <<req[r].conf, req[r].iou>>

\* ------------------------------------------------------------------ C10
\* C10: a request that leaves out conf and iou, and whose run is not
\* overlapped by another request's assignment of the thresholds, is processed
\* with 0.25 and 0.45, whatever earlier requests wrote to CONF_THRES and
\* IOU_THRES.
C10_DefaultsDoNotDrift ==
    \A r \in DOMAIN pc :
        (pc[r] = "done" /\ req[r].omitted /\ inp[r].clean /\ used[r] # <<>>) =>
            used[r] = <<25, 45>>
\* C10, its case: such a request, arriving when the module-level thresholds
\* were not the defaults, answered with a detection
C10_Witness ==
    \E r \in DOMAIN pc :
        /\ pc[r] = "done" /\ req[r].omitted /\ inp[r].clean
        /\ req[r].overrode
        /\ used[r] = <<25, 45>>
        /\ Len(resp[r].boxes) = 1

\* ================================================ one request, any input
PredReceive ==
    \E qc \in {<<>>, <<0>>, <<50>>} : \E qi \in {<<>>, <<0>>, <<100>>} :
        \E render \in BOOLEAN : Receive(1, qc, qi, render)

PredResume ==
    /\ pc[1] = "reading"
    /\ \/ Resume(1, BadUpload, FALSE, <<>>, FALSE, Identity)
       \/ \E img \in Images :
            IF ~letterbox(img.w, img.h).ok
            THEN Resume(1, img, FALSE, <<>>, FALSE, Identity)
            ELSE \/ Resume(1, img, FALSE, <<>>, FALSE, Identity)
                 \/ \E pred \in Preds :
                      IF req[1].render
                      THEN \E encodeOk \in BOOLEAN :
                             Resume(1, img, TRUE, pred, encodeOk, Identity)
                      ELSE \E tb \in Rankings(MaxRows) :
                             Resume(1, img, TRUE, pred, FALSE, tb)

InitPredict == InitSvc({1})
NextPredict == PredReceive \/ PredResume \/ Recycle(1)
SpecPredict == InitPredict /\ [][NextPredict]_vars

\* ------------------------------------------------------------------ C4
InImage(b, w, h) ==
    /\ 0 <= b.x1 /\ b.x1 <= b.x2 /\ b.x2 <= w - 1
    /\ 0 <= b.y1 /\ b.y1 <= b.y2 /\ b.y2 <= h - 1
\* C4, as claimed: for every image of W x H pixels and every raw prediction,
\* every box of the JSON response has 0 <= x1 <= x2 <= W-1 and
\* 0 <= y1 <= y2 <= H-1.
C4_BoxesInImage ==
    (pc[1] = "done" /\ resp[1].kind = "json") =>
        \A k \in 1..Len(resp[1].boxes) :
            InImage(resp[1].boxes[k], inp[1].w, inp[1].h)
\* C4, as amended: for every image of W x H pixels and every raw prediction
\* whose rows all have w >= 0 and h >= 0, every box of the JSON response has
\* 0 <= x1 <= x2 <= W-1 and 0 <= y1 <= y2 <= H-1.
C4_BoxesInImageProper ==
    (/\ pc[1] = "done" /\ resp[1].kind = "json"
     /\ \A k \in 1..Len(inp[1].pred) :
          inp[1].pred[k].xywh[3] >= 0 /\ inp[1].pred[k].xywh[4] >= 0) =>
        \A k \in 1..Len(resp[1].boxes) :
            InImage(resp[1].boxes[k], inp[1].w, inp[1].h)
\* C4, its case: a 3 x 2 image and a row whose box leaves the canvas on every
\* side, clipped to the whole image
C4_Witness ==
    /\ pc[1] = "done" /\ resp[1].kind = "json"
    /\ inp[1].w = 3 /\ inp[1].h = 2
    /\ inp[1].pred = <<RowBeyond, RowLeft>>
    /\ Len(resp[1].boxes) = 1
    /\ resp[1].boxes[1].x1 = 0 /\ resp[1].boxes[1].x2 = 2
    /\ resp[1].boxes[1].y1 = 0 /\ resp[1].boxes[1].y2 = 1

\* ------------------------------------------------------------------ C8
\* C8: an upload that does not decode is answered with a client error
\* (4xx), a failure of the engine or of the PNG encoder with a server error
\* (5xx), so the two are never the same response; no failure returns boxes.
C8_FailuresDistinguished ==
    pc[1] = "done" =>
        /\ ~inp[1].valid => resp[1].status \in 400..499
        /\ (inp[1].valid /\ ~inp[1].engineOk) => resp[1].status \in 500..599
        /\ (inp[1].valid /\ inp[1].engineOk /\ req[1].render /\ ~inp[1].encodeOk)
             => resp[1].status \in 500..599
        /\ resp[1].status # 200 => resp[1].boxes = <<>>

\* ------------------------------------------------------------------ C9
NoRowReaches(pred, conf_thres) ==
    \A k \in 1..Len(pred) : \A c \in 1..NumClasses :
        pred[k].obj * pred[k].cls[c] < conf_thres
\* C9: when no row of the raw prediction has a score that reaches the
\* confidence threshold, /predict with render=false answers
\* {"boxes": [], "width": W, "height": H} for the image's W and H.
C9_EmptyResult ==
    (/\ pc[1] = "done" /\ used[1] # <<>> /\ ~req[1].render
     /\ NoRowReaches(inp[1].pred, used[1][1])) =>
        resp[1] = [status |-> 200, kind |-> "json", boxes |-> <<>>,
                   width |-> inp[1].w, height |-> inp[1].h]
\* C9, its case: two rows of score 0.30 under the threshold 0.50, on a
\* 3 x 2 image
C9_Witness ==
    /\ pc[1] = "done" /\ used[1] # <<>> /\ ~req[1].render
    /\ inp[1].pred = <<RowNeg, RowNeg>> /\ used[1][1] = 50
    /\ inp[1].w = 3 /\ inp[1].h = 2
    /\ resp[1].kind = "json" /\ resp[1].boxes = <<>>

====
